---------------------------- MODULE Spec2Model ----------------------------
(***************************************************************************)
(* State-machine model of the two scripts of the repository:               *)
(*   src/BangkingProject.py          accounts and the Bank manager         *)
(*   src/TarnsportSystemMiniProject.py   vehicles, the race and the fleet  *)
(*                                                                         *)
(* Python floats are modelled by integers.  Every input is drawn from a    *)
(* set of integers on which the float operations of the source (x * 0.5,   *)
(* x * 0.9, x / mileage, x * 1.2, 1 - n * 0.01) are exact or compare with  *)
(* an integer the same way the exact rational does, so a comparison such   *)
(* as amount > balance * 0.9 is written 10 * amount > 9 * balance.         *)
(***************************************************************************)
EXTENDS Integers, Sequences, FiniteSets

VARIABLES
    \* ---- BangkingProject.py ----
    kind,             \* class of each account object
    balance,          \* BankAccount.__balance
    interest_rate,    \* SavingsAccount.interest_rate
    overdraft_limit,  \* CheckingAccount.overdraft_limit
    withdrawal_fee,   \* CheckingAccount.withdrawal_fee
    call,             \* the last public call: its arguments, the balances before it, what it raised
    \* ---- TarnsportSystemMiniProject.py ----
    max_speed,        \* Vehicle.max_speed of the vehicle being driven
    current_speed,    \* Vehicle.current_speed of that vehicle
    pedal,            \* the last accelerate or brake call and the speed before it
    garage,           \* the vehicle objects: class, brand, fuel or battery, load, passengers
    vehicles,         \* TransportSystem.vehicles: the fleet, a list of vehicle objects
    trip              \* the last drive, trip or race: its arguments and what it returned

bankVars == <<kind, balance, interest_rate, overdraft_limit, withdrawal_fee, call>>
speedVars == <<max_speed, current_speed, pedal>>
fleetVars == <<garage, vehicles, trip>>

vars == <<bankVars, speedVars, fleetVars>>

-----------------------------------------------------------------------------
(* Bounds of the model *)

MaxBalance == 8
MaxAmount == 5
MaxInitBalance == 1
MaxFee == 2
MaxOverdraft == 1
MaxRate == 1

Accounts == {"acc1", "acc2"}
Kinds == {"BankAccount", "SavingsAccount", "CheckingAccount"}

Amounts == (-1) .. MaxAmount
InitBalances == 0 .. MaxInitBalance

-----------------------------------------------------------------------------
(* The exceptions of BangkingProject.py, named by the message they carry *)

NoError == "none"
ErrDeposit == "ValueError: Deposit amount must be positive"
ErrWithdraw == "ValueError: Withdraw amount must be positive"
ErrApproval == "PermissionError: requires manager approval"
ErrInsufficient == "ValueError: Insufficient funds"
ErrSavingsRule == "ValueError: Savings rule"

\* The outcome of a call: the exception it raised and the balances it leaves
Return(bal) == [err |-> NoError, bal |-> bal]
Raise(e, bal) == [err |-> e, bal |-> bal]

-----------------------------------------------------------------------------
(* BankAccount *)

apply_delta(bal, a, delta) == [bal EXCEPT ![a] = @ + delta]

available_funds(bal, a) ==
    IF kind[a] = "CheckingAccount"
    THEN bal[a] + overdraft_limit[a]
    ELSE bal[a]

deposit(bal, a, amount) ==
    IF amount <= 0
    THEN Raise(ErrDeposit, bal)
    ELSE Return(apply_delta(bal, a, amount))

\* Mutant: approval asked from exactly half of the balance on (>= for >)
BankAccount_withdraw_ApprovalAtHalf(bal, a, amount, require_approval) ==
    IF amount <= 0
    THEN Raise(ErrWithdraw, bal)
    ELSE LET available_amount == available_funds(bal, a) IN
         IF require_approval /\ 2 * amount >= bal[a]
         THEN Raise(ErrApproval, bal)
         ELSE IF amount > available_amount
              THEN Raise(ErrInsufficient, bal)
              ELSE Return(apply_delta(bal, a, -amount))

\* Mutant: the approval threshold taken on the available funds, overdraft included
BankAccount_withdraw_ApprovalOnAvailable(bal, a, amount, require_approval) ==
    IF amount <= 0
    THEN Raise(ErrWithdraw, bal)
    ELSE LET available_amount == available_funds(bal, a) IN
         IF require_approval /\ 2 * amount > available_amount
         THEN Raise(ErrApproval, bal)
         ELSE IF amount > available_amount
              THEN Raise(ErrInsufficient, bal)
              ELSE Return(apply_delta(bal, a, -amount))

BankAccount_withdraw(bal, a, amount, require_approval) ==
    IF amount <= 0
    THEN Raise(ErrWithdraw, bal)
    ELSE LET available_amount == available_funds(bal, a) IN
         IF require_approval /\ 2 * amount > bal[a]
         THEN Raise(ErrApproval, bal)
         ELSE IF amount > available_amount
              THEN Raise(ErrInsufficient, bal)
              ELSE Return(apply_delta(bal, a, -amount))

\* Mutant: the 90% cap applied only when approval is required
SavingsAccount_withdraw_CapOnlyWithApproval(bal, a, amount, require_approval) ==
    IF require_approval /\ 10 * amount > 9 * bal[a]
    THEN Raise(ErrSavingsRule, bal)
    ELSE BankAccount_withdraw(bal, a, amount, require_approval)

SavingsAccount_withdraw(bal, a, amount, require_approval) ==
    IF 10 * amount > 9 * bal[a]
    THEN Raise(ErrSavingsRule, bal)
    ELSE BankAccount_withdraw(bal, a, amount, require_approval)

\* Mutant: the fee charged after the checks, which see the nominal amount
CheckingAccount_withdraw_FeeAfterChecks(bal, a, amount, require_approval) ==
    LET r == BankAccount_withdraw(bal, a, amount, require_approval) IN
    IF r.err = NoError
    THEN Return(apply_delta(r.bal, a, -withdrawal_fee[a]))
    ELSE r

CheckingAccount_withdraw(bal, a, amount, require_approval) ==
    LET total == amount + withdrawal_fee[a] IN
    BankAccount_withdraw(bal, a, total, require_approval)

\* Python's method dispatch on the class of the object
withdraw(bal, a, amount, require_approval) ==
    CASE kind[a] = "SavingsAccount" ->
             SavingsAccount_withdraw(bal, a, amount, require_approval)
      [] kind[a] = "CheckingAccount" ->
             CheckingAccount_withdraw(bal, a, amount, require_approval)
      [] OTHER -> BankAccount_withdraw(bal, a, amount, require_approval)

transfer(bal, a, other, amount) ==
    LET w == withdraw(bal, a, amount, FALSE) IN
    IF w.err # NoError
    THEN w
    ELSE deposit(w.bal, other, amount)

apply_interest(bal, a) ==
    LET interest == bal[a] * interest_rate[a] IN
    deposit(bal, a, interest)

(* Bank *)

approve_withdrawal(bal, account, amount) == withdraw(bal, account, amount, FALSE)

Bank_transfer(bal, acc1, acc2, amount) == transfer(bal, acc1, acc2, amount)

-----------------------------------------------------------------------------
(* The calls a client makes *)

NoCall == [op |-> "idle"]

\* The balances stay in the window the model explores
InWindow(bal) == \A a \in Accounts : bal[a] <= MaxBalance

\* The client is between two calls
Idle == call = NoCall

\* A call has returned or raised and the client looks at its outcome
Returned == call # NoCall

Finish(op, a, other, amount, approval, r) ==
    /\ InWindow(r.bal)
    /\ balance' = r.bal
    /\ call' = [op |-> op, acc |-> a, other |-> other, amount |-> amount,
                approval |-> approval, err |-> r.err, pre |-> balance]
    /\ UNCHANGED <<kind, interest_rate, overdraft_limit, withdrawal_fee>>
    /\ UNCHANGED <<speedVars, fleetVars>>

Deposit ==
    \E a \in Accounts, amount \in Amounts :
        /\ Idle
        /\ Finish("deposit", a, a, amount, FALSE, deposit(balance, a, amount))

Withdraw ==
    \E a \in Accounts, amount \in Amounts, require_approval \in BOOLEAN :
        /\ Idle
        /\ Finish("withdraw", a, a, amount, require_approval,
               withdraw(balance, a, amount, require_approval))

Transfer ==
    \E a \in Accounts, other \in Accounts, amount \in Amounts :
        /\ Idle
        /\ Finish("transfer", a, other, amount, FALSE,
               transfer(balance, a, other, amount))

ApplyInterest ==
    \E a \in Accounts :
        /\ Idle
        /\ kind[a] = "SavingsAccount"
        /\ Finish("apply_interest", a, a, 0, FALSE, apply_interest(balance, a))

ApproveWithdrawal ==
    \E a \in Accounts, amount \in Amounts :
        /\ Idle
        /\ Finish("approve_withdrawal", a, a, amount, FALSE,
               approve_withdrawal(balance, a, amount))

BankTransfer ==
    \E a \in Accounts, other \in Accounts, amount \in Amounts :
        /\ Idle
        /\ Finish("Bank.transfer", a, other, amount, FALSE,
               Bank_transfer(balance, a, other, amount))

\* The client goes on to its next statement (after the call, or in its except clause)
Resume ==
    /\ Returned
    /\ call' = NoCall
    /\ UNCHANGED <<kind, balance, interest_rate, overdraft_limit, withdrawal_fee>>
    /\ UNCHANGED <<speedVars, fleetVars>>

InitBank ==
    /\ kind \in [Accounts -> Kinds]
    /\ interest_rate \in [Accounts -> 0 .. MaxRate]
    /\ overdraft_limit \in [Accounts -> 0 .. MaxOverdraft]
    /\ withdrawal_fee \in [Accounts -> 0 .. MaxFee]
    /\ \A a \in Accounts :
          /\ kind[a] # "SavingsAccount" => interest_rate[a] = 0
          /\ kind[a] # "CheckingAccount" =>
                 overdraft_limit[a] = 0 /\ withdrawal_fee[a] = 0
    /\ balance \in [Accounts -> InitBalances]
    /\ \A a \in Accounts :
          kind[a] = "CheckingAccount" => balance[a] >= -overdraft_limit[a]
    /\ call = NoCall

NextBank ==
    \/ Deposit
    \/ Withdraw
    \/ Transfer
    \/ ApplyInterest
    \/ ApproveWithdrawal
    \/ BankTransfer
    \/ Resume

-----------------------------------------------------------------------------
(* Vehicle: accelerate and brake *)

MaxSpeedLimit == 3
MaxDelta == 2
SpeedWindow == 6

SpeedLimits == 1 .. MaxSpeedLimit
Deltas == (-MaxDelta) .. MaxDelta

min(x, y) == IF x <= y THEN x ELSE y
max(x, y) == IF x >= y THEN x ELSE y

\* The speed accelerate leaves; the refusal only prints
accelerate(speed, increase) ==
    IF speed + increase > max_speed
    THEN speed
    ELSE min(max_speed, speed + increase)

brake(speed, decrease) == max(0, speed - decrease)

NoPedal == [op |-> "none"]

\* The speeds stay in the window the model explores
InSpeedWindow(speed) == -SpeedWindow <= speed /\ speed <= SpeedWindow

Accelerate ==
    \E increase \in Deltas :
        /\ InSpeedWindow(accelerate(current_speed, increase))
        /\ current_speed' = accelerate(current_speed, increase)
        /\ pedal' = [op |-> "accelerate", delta |-> increase, pre |-> current_speed]
        /\ UNCHANGED <<max_speed, bankVars, fleetVars>>

Brake ==
    \E decrease \in Deltas :
        /\ InSpeedWindow(brake(current_speed, decrease))
        /\ current_speed' = brake(current_speed, decrease)
        /\ pedal' = [op |-> "brake", delta |-> decrease, pre |-> current_speed]
        /\ UNCHANGED <<max_speed, bankVars, fleetVars>>

\* Vehicle.__init__
InitSpeed ==
    /\ max_speed \in SpeedLimits
    /\ current_speed = 0
    /\ pedal = NoPedal

NextSpeed ==
    \/ Accelerate
    \/ Brake

-----------------------------------------------------------------------------
(* The vehicle classes and drive.  Fuel, battery and distances are integers; *)
(* the mileages, distances and passenger counts below are those on which     *)
(* distance / mileage, (distance / mileage) * 1.2, mileage / 1.2 and         *)
(* mileage * (1 - passengers * 0.01) are whole numbers.                      *)

VehicleIds == {"v1", "v2"}
Brands == {"A", "B"}
Distances == {30, 60}
InitFuels == {2, 6}
CarMileages == {15}
BikeMileages == {30}
TruckMileages == {6}
Efficiencies == {6}
BusMileages == {10}
LoadCapacities == {1}
Weights == {1}
PassCapacities == {100}
Counts == {50}
MaxFleet == 3

\* The constructors: a vehicle object holds the attributes its class sets
\* (brand of Vehicle.__init__; max_speed and current_speed are modelled apart)
Car(brand, fuel, mileage) ==
    [cls |-> "Car", brand |-> brand, fuel |-> fuel, mileage |-> mileage]

Truck(brand, fuel, mileage, load_capacity) ==
    [cls |-> "Truck", brand |-> brand, fuel |-> fuel, mileage |-> mileage,
     load_capacity |-> load_capacity, current_load |-> 0]

ElectricCar(brand, battery, efficiency) ==
    [cls |-> "ElectricCar", brand |-> brand, battery |-> battery,
     efficiency |-> efficiency]

MotorBike(brand, fuel, mileage) ==
    [cls |-> "MotorBike", brand |-> brand, fuel |-> fuel, mileage |-> mileage]

Bus(brand, fuel, mileage, pass_capacity) ==
    [cls |-> "Bus", brand |-> brand, fuel |-> fuel, mileage |-> mileage,
     pass_capacity |-> pass_capacity, passengers |-> 0]

\* Every vehicle a client may construct
Showroom ==
    UNION { {Car(b, f, m) : m \in CarMileages}
            \cup {Truck(b, f, m, c) : m \in TruckMileages, c \in LoadCapacities}
            \cup {ElectricCar(b, f, e) : e \in Efficiencies}
            \cup {MotorBike(b, f, m) : m \in BikeMileages}
            \cup {Bus(b, f, m, c) : m \in BusMileages, c \in PassCapacities}
          : b \in Brands, f \in InitFuels }

\* drive returns the distance covered and leaves the vehicle in a new state
Drove(v, distance) == [veh |-> v, traveled |-> distance]

Car_drive(v, distance) ==
    LET required_fuel == distance \div v.mileage IN
    IF required_fuel <= v.fuel
    THEN Drove([v EXCEPT !.fuel = @ - required_fuel], distance)
    ELSE Drove(v, v.mileage * v.fuel)

\* load_factor 1.2 or 1.0, in tenths
Truck_drive(v, distance) ==
    LET load_factor == IF v.current_load > 0 THEN 12 ELSE 10
        required_fuel == ((distance \div v.mileage) * load_factor) \div 10
    IN  IF required_fuel <= v.fuel
        THEN Drove([v EXCEPT !.fuel = @ - required_fuel], distance)
        ELSE Drove(v, v.fuel * ((v.mileage * 10) \div load_factor))

ElectricCar_drive(v, distance) ==
    LET required_battery == distance \div v.efficiency IN
    IF v.battery >= required_battery
    THEN Drove([v EXCEPT !.battery = @ - required_battery], distance)
    ELSE Drove(v, v.battery * v.efficiency)

MotorBike_drive(v, distance) ==
    LET required_fuel == distance \div v.mileage IN
    IF required_fuel <= v.fuel
    THEN Drove([v EXCEPT !.fuel = @ - required_fuel], distance)
    ELSE Drove(v, v.mileage * v.fuel)

Bus_drive(v, distance) ==
    LET effective_mileage == (v.mileage * (100 - v.passengers)) \div 100 IN
    IF effective_mileage <= 0
    THEN Drove(v, 0)
    ELSE LET required_fuel == distance \div effective_mileage IN
         IF required_fuel <= v.fuel
         THEN Drove([v EXCEPT !.fuel = @ - required_fuel], distance)
         ELSE Drove(v, v.fuel * effective_mileage)

\* Python's method dispatch on the class of the object
drive(v, distance) ==
    CASE v.cls = "Car" -> Car_drive(v, distance)
      [] v.cls = "Truck" -> Truck_drive(v, distance)
      [] v.cls = "ElectricCar" -> ElectricCar_drive(v, distance)
      [] v.cls = "MotorBike" -> MotorBike_drive(v, distance)
      [] v.cls = "Bus" -> Bus_drive(v, distance)

load_cargo(v, weight) ==
    IF v.current_load + weight <= v.load_capacity
    THEN [v EXCEPT !.current_load = @ + weight]
    ELSE v

board_passengers(v, count) ==
    IF v.passengers + count <= v.pass_capacity
    THEN [v EXCEPT !.passengers = @ + count]
    ELSE v

-----------------------------------------------------------------------------
(* race and TransportSystem *)

ErrEmptyMax == "ValueError: max() arg is an empty sequence"

\* The for loop of race and of simulate_trip from position i on: each vehicle
\* of the list is driven in turn.  st.garage are the vehicle objects,
\* st.traveled what each drive returned, st.keys the keys of the dict results
\* in insertion order and st.results its values.
RECURSIVE DriveAll(_, _, _, _)
DriveAll(vs, i, distance, st) ==
    IF i > Len(vs)
    THEN st
    ELSE LET id == vs[i]
             d == drive(st.garage[id], distance)
             brand == st.garage[id].brand
         IN  DriveAll(vs, i + 1, distance,
                 [garage |-> [st.garage EXCEPT ![id] = d.veh],
                  traveled |-> Append(st.traveled, d.traveled),
                  keys |-> IF brand \in DOMAIN st.results
                           THEN st.keys
                           ELSE Append(st.keys, brand),
                  results |-> [b \in DOMAIN st.results \cup {brand} |->
                                  IF b = brand THEN d.traveled ELSE st.results[b]]])

NoResults == [b \in {} |-> 0]

Start(g) == [garage |-> g, traveled |-> <<>>, keys |-> <<>>, results |-> NoResults]

\* max(results.items(), key = item[1])[0]: the first key, in the order of the
\* dict, whose value no other value exceeds
dict_max(keys, results) ==
    LET i == CHOOSE i \in 1 .. Len(keys) :
                 /\ \A j \in 1 .. Len(keys) : results[keys[j]] <= results[keys[i]]
                 /\ \A j \in 1 .. (i - 1) : results[keys[j]] < results[keys[i]]
    IN  keys[i]

race(vs, g, distance) ==
    LET st == DriveAll(vs, 1, distance, Start(g)) IN
    IF Len(st.keys) = 0
    THEN [garage |-> st.garage, traveled |-> st.traveled, results |-> st.results,
          winner |-> "none", err |-> ErrEmptyMax]
    ELSE [garage |-> st.garage, traveled |-> st.traveled, results |-> st.results,
          winner |-> dict_max(st.keys, st.results), err |-> NoError]

simulate_trip(vs, g, distance) == DriveAll(vs, 1, distance, Start(g)).garage

organize_race(vs, g, distance) == race(vs, g, distance)

-----------------------------------------------------------------------------
(* The calls a client of the transport system makes *)

NoTrip == [op |-> "idle"]

\* The client is between two calls
Parked == trip = NoTrip

Arrive(op, id, distance, g, traveled, results, winner, err) ==
    /\ garage' = g
    /\ trip' = [op |-> op, id |-> id, distance |-> distance, pre |-> garage,
                traveled |-> traveled, results |-> results, winner |-> winner,
                err |-> err]

AddVehicle ==
    \E id \in VehicleIds :
        /\ Parked
        /\ Len(vehicles) < MaxFleet
        /\ vehicles' = Append(vehicles, id)
        /\ UNCHANGED <<garage, trip, bankVars, speedVars>>

Drive ==
    \E id \in VehicleIds, distance \in Distances :
        LET d == drive(garage[id], distance) IN
        /\ Parked
        /\ Arrive("drive", id, distance, [garage EXCEPT ![id] = d.veh],
                  <<d.traveled>>, NoResults, "none", NoError)
        /\ UNCHANGED <<vehicles, bankVars, speedVars>>

LoadCargo ==
    \E id \in VehicleIds, weight \in Weights :
        /\ Parked
        /\ garage[id].cls = "Truck"
        /\ Arrive("load_cargo", id, 0, [garage EXCEPT ![id] = load_cargo(@, weight)],
                  <<>>, NoResults, "none", NoError)
        /\ UNCHANGED <<vehicles, bankVars, speedVars>>

BoardPassengers ==
    \E id \in VehicleIds, count \in Counts :
        /\ Parked
        /\ garage[id].cls = "Bus"
        /\ Arrive("board_passengers", id, 0,
                  [garage EXCEPT ![id] = board_passengers(@, count)],
                  <<>>, NoResults, "none", NoError)
        /\ UNCHANGED <<vehicles, bankVars, speedVars>>

SimulateTrip ==
    \E distance \in Distances :
        /\ Parked
        /\ Arrive("simulate_trip", "v1", distance,
                  simulate_trip(vehicles, garage, distance),
                  <<>>, NoResults, "none", NoError)
        /\ UNCHANGED <<vehicles, bankVars, speedVars>>

OrganizeRace ==
    \E distance \in Distances :
        LET r == organize_race(vehicles, garage, distance) IN
        /\ Parked
        /\ Arrive("organize_race", "v1", distance, r.garage, r.traveled, r.results,
                  r.winner, r.err)
        /\ UNCHANGED <<vehicles, bankVars, speedVars>>

\* The client goes on to its next statement
DriveOn ==
    /\ ~Parked
    /\ trip' = NoTrip
    /\ UNCHANGED <<garage, vehicles, bankVars, speedVars>>

\* The vehicles are constructed; TransportSystem.__init__
InitFleet ==
    /\ garage \in [VehicleIds -> Showroom]
    /\ vehicles = <<>>
    /\ trip = NoTrip

NextFleet ==
    \/ AddVehicle
    \/ Drive
    \/ LoadCargo
    \/ BoardPassengers
    \/ SimulateTrip
    \/ OrganizeRace
    \/ DriveOn

-----------------------------------------------------------------------------
(* The specifications: each script runs on its own; the objects of the      *)
(* others are not constructed                                               *)

NoBank ==
    /\ kind = <<>>
    /\ balance = <<>>
    /\ interest_rate = <<>>
    /\ overdraft_limit = <<>>
    /\ withdrawal_fee = <<>>
    /\ call = NoCall

NoSpeed ==
    /\ max_speed = 0
    /\ current_speed = 0
    /\ pedal = NoPedal

NoFleet ==
    /\ garage = <<>>
    /\ vehicles = <<>>
    /\ trip = NoTrip

BankAlone == InitBank /\ NoSpeed /\ NoFleet

SpecBank == BankAlone /\ [][NextBank]_vars

SpeedAlone == InitSpeed /\ NoBank /\ NoFleet

SpecSpeed == SpeedAlone /\ [][NextSpeed]_vars

FleetAlone == InitFleet /\ NoBank /\ NoSpeed

SpecFleet == FleetAlone /\ [][NextFleet]_vars

-----------------------------------------------------------------------------
(* Properties of the accounts, checked under SpecBank *)

\* The account the last call was made on, its balance before and after the call
Self == call.acc
Before == call.pre[Self]
After == balance[Self]

\* The last call withdrew from Self: directly, by a transfer or through the manager
WithdrawalPath ==
    call.op \in {"withdraw", "transfer", "Bank.transfer", "approve_withdrawal"}

\* C1: on every account variant, withdraw(amount, requireApproval) with
\* amount <= 0 raises the invalid-amount error and leaves the balance unchanged.
C1_NonPositiveWithdrawRejected ==
    (call.op = "withdraw" /\ call.amount <= 0) =>
        (call.err = ErrWithdraw /\ balance = call.pre)

\* C2: every mutating operation is all-or-nothing: a call that ends in an
\* error leaves the balance of every account as it was before the call.
C2_FailedCallChangesNothing ==
    (Returned /\ call.err # NoError) => balance = call.pre

\* C3 as stated: withdraw(amount, requireApproval = true) with amount > 0
\* raises the approval error iff the amount the caller passed exceeds half of
\* the balance, on every variant.
C3_ApprovalIffNominalOverHalf ==
    (call.op = "withdraw" /\ call.approval /\ call.amount > 0) =>
        (call.err = ErrApproval <=> 2 * call.amount > Before)

\* C3 amended: withdraw(amount, requireApproval = true) with amount > 0 raises
\* the approval error iff
\*   BankAccount:      amount > 0.5 * balance
\*   CheckingAccount:  amount + withdrawal_fee > 0.5 * balance
\*   SavingsAccount:   0.5 * balance < amount <= 0.9 * balance
C3_ApprovalRule ==
    (call.op = "withdraw" /\ call.approval /\ call.amount > 0) =>
        (call.err = ErrApproval <=>
            CASE kind[Self] = "CheckingAccount" ->
                     2 * (call.amount + withdrawal_fee[Self]) > Before
              [] kind[Self] = "SavingsAccount" ->
                     2 * call.amount > Before /\ 10 * call.amount <= 9 * Before
              [] OTHER -> 2 * call.amount > Before)

\* A CheckingAccount refused a withdrawal of at most half of its balance
\* because the fee took the total over the half.
C3_Witness ==
    /\ call.op = "withdraw" /\ call.approval /\ call.amount > 0
    /\ kind[Self] = "CheckingAccount"
    /\ 2 * call.amount <= Before
    /\ call.err = ErrApproval

\* C4: a CheckingAccount never goes below -overdraft_limit, whatever calls
\* were made on it and whether they succeeded or failed, fee included.
C4_OverdraftInvariant ==
    \A a \in Accounts :
        kind[a] = "CheckingAccount" => balance[a] >= -overdraft_limit[a]

\* A withdrawal with a fee took a CheckingAccount to exactly -overdraft_limit.
C4_Witness ==
    /\ WithdrawalPath /\ call.err = NoError
    /\ kind[Self] = "CheckingAccount"
    /\ withdrawal_fee[Self] > 0 /\ overdraft_limit[Self] > 0
    /\ Before >= 0
    /\ After = -overdraft_limit[Self]

\* C5: on a SavingsAccount a withdrawal of more than 90% of the balance raises
\* the savings-rule error on every path and with either approval flag, and
\* after a successful withdrawal at least 10% of the former balance is left.
C5_SavingsCap ==
    (WithdrawalPath /\ kind[Self] = "SavingsAccount") =>
        /\ 10 * call.amount > 9 * Before =>
               (call.err = ErrSavingsRule /\ balance = call.pre)
        /\ call.err = NoError => 10 * After >= Before

\* The manager's approval of a withdrawal of the whole balance of a
\* SavingsAccount, which the funds would cover, was refused by the savings rule.
C5_Witness ==
    /\ call.op = "approve_withdrawal"
    /\ kind[Self] = "SavingsAccount"
    /\ Before > 0 /\ call.amount = Before
    /\ call.err = ErrSavingsRule

\* C6: apply_interest never fails when the interest is zero (the balance is
\* then unchanged), and with interest_rate > 0 and balance > 0 it adds exactly
\* balance * interest_rate.
C6_InterestTolerated ==
    call.op = "apply_interest" =>
        /\ Before * interest_rate[Self] = 0 =>
               (call.err = NoError /\ balance = call.pre)
        /\ (interest_rate[Self] > 0 /\ Before > 0) =>
               (call.err = NoError /\ After = Before + Before * interest_rate[Self])

\* What the last call drew from the account it was made on
Drawn == Before - After

\* C10 as stated: no successful deposit, withdraw with the default approval
\* flag, transfer or Bank.transfer draws more than half of the balance of the
\* account it draws from.
C10_OnlyManagerDrawsOverHalf ==
    ( /\ \/ call.op \in {"deposit", "transfer", "Bank.transfer"}
         \/ call.op = "withdraw" /\ call.approval
      /\ call.err = NoError ) =>
        (Drawn > 0 => 2 * Drawn <= Before)

\* C10 amended: no deposit, apply_interest or withdraw with the default
\* approval flag draws more than half of the balance; approve_withdrawal,
\* transfer and Bank.transfer (and withdraw with the flag off) can.
C10_DefaultWithdrawAtMostHalf ==
    ( \/ call.op \in {"deposit", "apply_interest"}
      \/ call.op = "withdraw" /\ call.approval ) =>
        (Drawn > 0 => 2 * Drawn <= Before)

\* A withdrawal with the default flag drew exactly half of the balance.
C10_Witness ==
    /\ call.op = "withdraw" /\ call.approval /\ call.err = NoError
    /\ 2 * Drawn = Before
    /\ Drawn > 0

-----------------------------------------------------------------------------
(* Properties of the vehicles, checked under SpecSpeed and SpecFleet *)

\* C7: after any accelerate and brake calls, with any delta, the speed is
\* within 0 .. max_speed, and an accelerate that would exceed max_speed leaves
\* the speed unchanged.
C7_SpeedWithinLimits ==
    /\ 0 <= current_speed
    /\ current_speed <= max_speed
    /\ (pedal.op = "accelerate" /\ pedal.pre + pedal.delta > max_speed) =>
           current_speed = pedal.pre

\* The vehicle the last call was made on, before and after the call
VehicleBefore == trip.pre[trip.id]
VehicleAfter == garage[trip.id]

\* C8: a drive on a Car or MotorBike that needs more fuel than remains returns
\* mileage * fuel and leaves the fuel at 0; a drive that falls short on a
\* Truck, ElectricCar or Bus leaves the fuel or battery at 0 too.
C8_ShortfallDrainsFuel ==
    trip.op = "drive" =>
        /\ ( /\ VehicleBefore.cls \in {"Car", "MotorBike"}
             /\ trip.distance > VehicleBefore.mileage * VehicleBefore.fuel ) =>
               ( /\ trip.traveled[1] = VehicleBefore.mileage * VehicleBefore.fuel
                 /\ VehicleAfter.fuel = 0 )
        /\ ( /\ VehicleBefore.cls \in {"Truck", "Bus"}
             /\ 0 < trip.traveled[1]
             /\ trip.traveled[1] < trip.distance ) =>
               VehicleAfter.fuel = 0
        /\ ( /\ VehicleBefore.cls = "ElectricCar"
             /\ trip.distance > VehicleBefore.battery * VehicleBefore.efficiency ) =>
               ( /\ trip.traveled[1] = VehicleBefore.battery * VehicleBefore.efficiency
                 /\ VehicleAfter.battery = 0 )

\* The first position of the fleet whose drive returned the most in the race
FirstBest ==
    CHOOSE i \in 1 .. Len(trip.traveled) :
        /\ \A j \in 1 .. Len(trip.traveled) : trip.traveled[j] <= trip.traveled[i]
        /\ \A j \in 1 .. (i - 1) : trip.traveled[j] < trip.traveled[i]

\* C9: organize_race drives every vehicle of the fleet once, in fleet order,
\* and the winner is the first vehicle of the fleet whose drive returned the
\* maximum distance of the race.
C9_WinnerIsFirstBest ==
    (trip.op = "organize_race" /\ Len(vehicles) > 0) =>
        /\ Len(trip.traveled) = Len(vehicles)
        /\ trip.err = NoError
        /\ trip.winner = trip.pre[vehicles[FirstBest]].brand

=============================================================================
